---- MODULE Spec2Model ----
(***************************************************************************)
(* Model of stats.py: the load-test result analyser.                       *)
(*                                                                         *)
(* main() runs load_and_process_data, generate_summary_stats,              *)
(* generate_latex_tables, the prints, optionally plot_performance_graphs,  *)
(* and the key findings, all inside one try/except Exception.              *)
(*                                                                         *)
(* Numbers.  The timing samples are integers (milliseconds); every derived *)
(* statistic is an exact rational [n, d] in lowest terms.  A standard      *)
(* deviation is carried as its square (the sample variance): the square    *)
(* root is injective on the non-negative numbers, so equal variances are   *)
(* equal deviations.  IEEE rounding of the float arithmetic is not         *)
(* modelled.                                                               *)
(*                                                                         *)
(* Tables.  A DataFrame is a record with its rows in order (the loaded     *)
(* tables also with their set of columns); a row is a function from the    *)
(* columns it has a value for to that value, and a column missing from a   *)
(* row's domain is NaN (what pd.concat fills in for a column the row's     *)
(* source table did not have).                                             *)
(***************************************************************************)
EXTENDS Integers, Sequences, FiniteSets, TLC

\* ---------------------------------------------------------------- bounds
MaxFiles == 2   \* files in the input directory
MaxRows  == 2   \* data rows of one CSV file
MaxRun   == 1   \* run numbers 0..MaxRun in file names
MaxBatch == 1   \* batch numbers 0..MaxBatch in file names
MaxSamples == 4 \* data rows of the file of the one-file runs

\* The test_id values a CSV file may carry in a column of its own.
CsvTestIds  == {1}

NoMatch   == [match |-> FALSE]
Malformed == [ok |-> FALSE]
None      == [none |-> TRUE]

\* ------------------------------------------------------------- rationals
RECURSIVE GCD(_, _)
GCD(a, b) == IF b = 0 THEN a ELSE GCD(b, a % b)

Abs(x) == IF x < 0 THEN -x ELSE x

\* n/d in lowest terms, d > 0
Rat(n, d) ==
    LET g == GCD(Abs(n), Abs(d))
        s == IF d < 0 THEN -1 ELSE 1
    IN  [n |-> s * (n \div g), d |-> s * (d \div g)]

RInt(k)    == [n |-> k, d |-> 1]
RLeq(a, b) == a.n * b.d <= b.n * a.d
RAdd(a, b) == Rat(a.n * b.d + b.n * a.d, a.d * b.d)
RMul(a, b) == Rat(a.n * b.n, a.d * b.d)
RMaxOf(a, b) == IF RLeq(a, b) THEN b ELSE a

\* ------------------------------------------------------- lookup tables
get_implementation_name(variant) ==
    CASE variant = 1 -> "Imperative"
      [] variant = 2 -> "Virtual Threads"
      [] variant = 3 -> "Reactive"
      [] OTHER       -> <<"Unknown", variant>>

get_test_name(test) ==
    CASE test = 1 -> "HTTP Status (5s)"
      [] test = 2 -> "CPU Prime"
      [] test = 3 -> "Database I/O"
      [] OTHER    -> <<"Test", test>>

\* ------------------------------------------------------------ file paths
(* A path is what the two regular expressions and the glob see of it:      *)
(*   dir   the groups of cnc(\d+)_(\d+)-(\d+) in the directory name, or    *)
(*         NoMatch;                                                        *)
(*   glob  whether the base name matches result-*.csv;                     *)
(*   file  the groups of result-.*?-(\d+)-(\d+)\.csv in the base name, or  *)
(*         NoMatch.                                                        *)
DirMatched == [match |-> TRUE, concurrency |-> 10, test_num |-> 1, variant |-> 2]
DirNames   == {NoMatch, DirMatched}

FileMatches ==
    {[match |-> TRUE, run |-> r, batch |-> b] : r \in 0..MaxRun, b \in 0..MaxBatch}

BaseNames ==
    {[glob |-> FALSE, file |-> NoMatch], [glob |-> TRUE, file |-> NoMatch]}
    \cup {[glob |-> TRUE, file |-> m] : m \in FileMatches}

extract_metadata(dir, base) ==
    IF ~dir.match THEN None
    ELSE IF ~base.file.match THEN None
    ELSE ("concurrency"    :> dir.concurrency)
      @@ ("test_num"       :> dir.test_num)
      @@ ("test_name"      :> get_test_name(dir.test_num))
      @@ ("variant"        :> dir.variant)
      @@ ("implementation" :> get_implementation_name(dir.variant))
      @@ ("run"            :> base.file.run)
      @@ ("batch"          :> base.file.batch)

\* ---------------------------------------------------------- file content
Metrics == <<"response-time", "Response-delay", "Response-read", "Request-write">>

\* One recorded request: the response time splits into write, delay, read.
SampleRow(rt, st) ==
       ("response-time"  :> rt)
    @@ ("Response-delay" :> rt - 3)
    @@ ("Response-read"  :> 2)
    @@ ("Request-write"  :> 1)
    @@ ("status-code"    :> st)

\* The requests the files of the directory are made of: a fast one that
\* succeeded and a slow one that failed.
SampleRows == {SampleRow(10, 200), SampleRow(20, 400)}

\* A file that loads has 1..MaxRows data rows, every cell filled (pd.read_csv
\* raises EmptyDataError for an empty file).
RowSeqs == UNION {[1..k -> SampleRows] : k \in 1..MaxRows}

WithTestId(rows, t) == [i \in DOMAIN rows |-> rows[i] @@ ("test_id" :> t)]

CsvColumns == {"response-time", "Response-delay", "Response-read",
               "Request-write", "status-code"}

\* What pd.read_csv makes of a file: a table, or an exception (Malformed).
Tables ==
    {[ok |-> TRUE, columns |-> CsvColumns, rows |-> rs] : rs \in RowSeqs}
    \cup {[ok |-> TRUE, columns |-> CsvColumns \cup {"test_id"},
           rows |-> WithTestId(rs, t)] : rs \in RowSeqs, t \in CsvTestIds}

Contents == {Malformed} \cup Tables

\* A file that is never opened: its content decides nothing.
UnreadContents ==
    {Malformed,
     [ok |-> TRUE, columns |-> CsvColumns,
      rows |-> <<SampleRow(10, 200)>>]}

FilesIn(dir) ==
    {[base |-> b, content |-> c] :
        b \in {x \in BaseNames : extract_metadata(dir, x) = None},
        c \in UnreadContents}
    \cup {[base |-> b, content |-> c] :
            b \in {x \in BaseNames : extract_metadata(dir, x) # None},
            c \in Contents}

\* -------------------------------------------------------- pandas pieces
NaN == [nan |-> TRUE]
Inf == [inf |-> TRUE]

IsNa(row, col) == col \notin DOMAIN row

RECURSIVE SumSeq(_)
SumSeq(x) == IF x = <<>> THEN 0 ELSE Head(x) + SumSeq(Tail(x))

RECURSIVE MinSeq(_)
MinSeq(x) ==
    IF Len(x) = 1 THEN x[1]
    ELSE LET m == MinSeq(Tail(x)) IN IF Head(x) <= m THEN Head(x) ELSE m

RECURSIVE MaxSeq(_)
MaxSeq(x) ==
    IF Len(x) = 1 THEN x[1]
    ELSE LET m == MaxSeq(Tail(x)) IN IF Head(x) >= m THEN Head(x) ELSE m

\* Sorted, were the order statistics read off the series as it stands
Unsorted(x) == x

Sorted(x) == SortSeq(x, LAMBDA a, b : a < b)

\* 'mean' of an integer series
Mean(x) == Rat(SumSeq(x), Len(x))

\* 'std' (ddof = 1) of an integer series, as its square; NaN for one sample
Std(x) ==
    LET n  == Len(x)
        s  == SumSeq(x)
        ss == SumSeq([i \in DOMAIN x |-> x[i] * x[i]])
    IN  IF n < 2 THEN NaN ELSE [sq |-> Rat(n * ss - s * s, n * (n - 1))]

\* 'median': the middle order statistic, or the mean of the two middle ones
Median(x) ==
    LET n == Len(x)
        s == Sorted(x)
    IN  IF n % 2 = 1 THEN RInt(s[(n + 1) \div 2])
        ELSE Rat(s[n \div 2] + s[n \div 2 + 1], 2)

\* Quantile, were the upper neighbour added instead of the difference
QuantileNoDifference(x, qn, qd) ==
    LET n    == Len(x)
        s    == Sorted(x)
        lo   == ((n - 1) * qn) \div qd
        frac == (n - 1) * qn - lo * qd
    IN  IF lo + 2 > n THEN RInt(s[lo + 1])
        ELSE Rat(s[lo + 1] * qd + frac * s[lo + 2], qd)

\* Series.quantile(qn/qd), interpolation='linear': with h = (n-1)*q and
\* lo = floor(h), the value s[lo] + (h - lo) * (s[lo+1] - s[lo]) (0-based s)
Quantile(x, qn, qd) ==
    LET n    == Len(x)
        s    == Sorted(x)
        lo   == ((n - 1) * qn) \div qd
        frac == (n - 1) * qn - lo * qd
    IN  IF lo + 2 > n THEN RInt(s[lo + 1])
        ELSE Rat(s[lo + 1] * qd + frac * (s[lo + 2] - s[lo + 1]), qd)

\* lines 100-108: the seven statistics of one metric of one group
MetricStats(x) ==
    [avg |-> Mean(x),
     std |-> Std(x),
     min |-> MinSeq(x),
     max |-> MaxSeq(x),
     p50 |-> Median(x),
     p95 |-> Quantile(x, 95, 100),
     p99 |-> Quantile(x, 99, 100)]

\* IsError, were the comparison strict
IsErrorAbove(status) == status > 400

\* line 117: (x['status-code'] >= 400).mean() * 100
IsError(status) == status >= 400

ErrorRate(rows) ==
    Rat(100 * Len(SelectSeq(rows, LAMBDA r : IsError(r["status-code"]))), Len(rows))

\* lines 86-88: total_requests / (avg_response-time / 1000); a float division by
\* zero of a positive count gives inf
calculate_rps(total_requests, avg) ==
    IF avg.n = 0 THEN Inf ELSE Rat(total_requests * 1000 * avg.d, avg.n)

\* ------------------------------------------------------------- groupby
GroupCols == <<"test_id", "run", "batch">>

\* groupby drops the rows with a NaN in a key column (dropna=True)
HasKey(row) == \A i \in DOMAIN GroupCols : ~IsNa(row, GroupCols[i])

KeyOf(row) == [i \in DOMAIN GroupCols |-> row[GroupCols[i]]]

RECURSIVE LexLess(_, _)
LexLess(a, b) ==
    IF a = <<>> THEN FALSE
    ELSE IF Head(a) # Head(b) THEN Head(a) < Head(b)
    ELSE LexLess(Tail(a), Tail(b))

RECURSIVE SortedKeys(_)
SortedKeys(keys) ==
    IF keys = {} THEN <<>>
    ELSE LET k == CHOOSE k \in keys : \A o \in keys : o = k \/ LexLess(k, o)
         IN  <<k>> \o SortedKeys(keys \ {k})

\* the group keys of a table, in sorted order (sort=True)
GroupKeys(rows) ==
    SortedKeys({KeyOf(rows[i]) : i \in {j \in DOMAIN rows : HasKey(rows[j])}})

\* the rows of one group, in the order of the table
GroupRows(rows, key) ==
    SelectSeq(rows, LAMBDA r : HasKey(r) /\ KeyOf(r) = key)

Series(rows, col) == [i \in DOMAIN rows |-> rows[i][col]]

MetricSet == {Metrics[i] : i \in DOMAIN Metrics}

\* lines 96-121 and 132: one row of batch_summary
BatchRow(rows, key) ==
    LET g   == GroupRows(rows, key)
        st  == [m \in MetricSet |-> MetricStats(Series(g, m))]
        tot == Len(g)
    IN  [test_id        |-> key[1],
         run            |-> key[2],
         batch          |-> key[3],
         stats          |-> st,
         total_requests |-> tot,
         error_rate     |-> ErrorRate(g),
         rps            |-> calculate_rps(tot, st["response-time"].avg)]

BatchSummary(rows) ==
    LET keys == GroupKeys(rows)
    IN  [i \in DOMAIN keys |-> BatchRow(rows, keys[i])]

\* ------------------------------------------------------------ .round(2)
RECURSIVE ISqrtIn(_, _, _)
ISqrtIn(z, lo, hi) ==
    IF lo = hi THEN lo
    ELSE LET mid == (lo + hi + 1) \div 2
         IN  IF mid * mid <= z THEN ISqrtIn(z, mid, hi) ELSE ISqrtIn(z, lo, mid - 1)

ISqrt(z) == ISqrtIn(z, 0, IF z < 46340 THEN z ELSE 46340)

\* the nearest hundredth of a rational, ties to the even one
Round2(r) ==
    LET f   == (100 * r.n) \div r.d
        rem == 100 * r.n - f * r.d
        k   == IF 2 * rem < r.d THEN f
               ELSE IF 2 * rem > r.d THEN f + 1
               ELSE IF f % 2 = 0 THEN f ELSE f + 1
    IN  Rat(k, 100)

\* the nearest hundredth of the square root of a rational v: with
\* s = floor(sqrt(40000 v)), 100 sqrt(v) lies in [s/2, (s+1)/2)
Round2Sqrt(v) ==
    LET s   == ISqrt((40000 * v.n) \div v.d)
        tie == s % 2 = 1 /\ s * s * v.d = 40000 * v.n
        k   == IF tie THEN (IF ((s - 1) \div 2) % 2 = 0 THEN (s - 1) \div 2
                            ELSE (s + 1) \div 2)
               ELSE (s + 1) \div 2
    IN  Rat(k, 100)

\* -------------------------------------------------------- run summary
RECURSIVE RSum(_)
RSum(x) == IF x = <<>> THEN RInt(0) ELSE RAdd(Head(x), RSum(Tail(x)))

RECURSIVE RMax(_)
RMax(x) == IF Len(x) = 1 THEN x[1] ELSE RMaxOf(Head(x), RMax(Tail(x)))

RMean(x) == RMul(RSum(x), Rat(1, Len(x)))

\* 'std' (ddof = 1) of a series of rationals, as its square
RStd(x) ==
    LET n  == Len(x)
        s  == RSum(x)
        ss == RSum([i \in DOMAIN x |-> RMul(x[i], x[i])])
    IN  IF n < 2 THEN NaN
        ELSE [sq |-> RMul(RAdd(RMul(RInt(n), ss), RMul(RInt(-1), RMul(s, s))),
                          Rat(1, n * (n - 1)))]

RECURSIVE SortedInts(_)
SortedInts(ks) ==
    IF ks = {} THEN <<>>
    ELSE LET k == CHOOSE k \in ks : \A o \in ks : k <= o
         IN  <<k>> \o SortedInts(ks \ {k})

\* lines 135-140: one row of run_summary, rounded to two places
RunRow(bs, run) ==
    LET g   == SelectSeq(bs, LAMBDA b : b.run = run)
        avg == [i \in DOMAIN g |-> g[i].stats["response-time"].avg]
        sd  == RStd(avg)
    IN  [run                 |-> run,
         avg_response_mean   |-> Round2(RMean(avg)),
         avg_response_std    |-> IF sd = NaN THEN NaN ELSE Round2Sqrt(sd.sq),
         p99_response_max    |-> Round2(RMax([i \in DOMAIN g |->
                                                g[i].stats["response-time"].p99])),
         error_rate_max      |-> Round2(RMax([i \in DOMAIN g |-> g[i].error_rate])),
         total_requests_sum  |-> SumSeq([i \in DOMAIN g |-> g[i].total_requests])]

RunSummary(bs) ==
    LET runs == SortedInts({bs[i].run : i \in DOMAIN bs})
    IN  [i \in DOMAIN runs |-> RunRow(bs, runs[i])]

\* lines 90-142, on a table that has the group columns.  avg_batch_summary
\* (lines 124-129) is computed and dropped: it is not returned.
generate_summary_stats(df) ==
    LET bs == BatchSummary(df.rows)
    IN  [batch_summary |-> [rows |-> bs], run_summary |-> [rows |-> RunSummary(bs)]]

\* ------------------------------------------------------------------ state
VARIABLES
    directory,      \* the input directory: its name and its files (never written)
    plot,           \* args.plot
    pc,             \* where main is
    csv_files,      \* load_and_process_data: the glob result, as indexes of directory.files
    pos,            \* load_and_process_data: candidates the for loop has finished
    df_list,        \* load_and_process_data: the annotated tables
    stdout,         \* everything printed so far
    exc,            \* the exception in flight, or None
    data,           \* main: the unified dataset, or None
    batch_summary,  \* main: generate_summary_stats(data)[0], or None
    run_summary,    \* main: generate_summary_stats(data)[1], or None
    artifacts,      \* image files written into the input directory
    ret             \* what main returned: "running" until it returns, then "None" or "1"

vars == <<directory, plot, pc, csv_files, pos, df_list, stdout, exc, data,
          batch_summary, run_summary, artifacts, ret>>

Init ==
    /\ \E dir \in DirNames, k \in 0..MaxFiles :
          \E fs \in [1..k -> FilesIn(dir)] :
             directory = [dir |-> dir, files |-> fs]
    /\ plot \in BOOLEAN
    /\ pc = "glob"
    /\ csv_files = <<>>
    /\ pos = 0
    /\ df_list = <<>>
    /\ stdout = <<>>
    /\ exc = None
    /\ data = None
    /\ batch_summary = None
    /\ run_summary = None
    /\ artifacts = {}
    /\ ret = "running"

ValueError(msg) == [type |-> "ValueError", msg |-> msg]
KeyError(key)   == [type |-> "KeyError", msg |-> key]
TypeError(msg)  == [type |-> "TypeError", msg |-> msg]

\* glob.glob(os.path.join(directory, "result-*.csv")), in directory order
Glob(dir) ==
    SelectSeq([i \in 1..Len(dir.files) |-> i], LAMBDA i : dir.files[i].base.glob)

\* df[key] = value for every metadata key: a uniform column, replacing one of that name
Annotate(df, metadata) ==
    [columns |-> df.columns \cup DOMAIN metadata,
     rows    |-> [i \in DOMAIN df.rows |-> metadata @@ df.rows[i]]]

RECURSIVE ConcatRows(_)
ConcatRows(dfs) ==
    IF dfs = <<>> THEN <<>> ELSE Head(dfs).rows \o ConcatRows(Tail(dfs))

\* Concat, were only the last table kept
ConcatLast(dfs) ==
    [columns |-> dfs[Len(dfs)].columns,
     rows    |-> dfs[Len(dfs)].rows]

\* pd.concat(df_list, ignore_index=True): the union of the columns, the rows in order
Concat(dfs) ==
    [columns |-> UNION {dfs[i].columns : i \in DOMAIN dfs},
     rows    |-> ConcatRows(dfs)]

\* ------------------------------------------------ load_and_process_data
\* Discover, without the check of lines 65-66
DiscoverNoCheck ==
    /\ pc = "glob"
    /\ csv_files' = Glob(directory)
    /\ pc' = "loop"
    /\ UNCHANGED <<directory, plot, pos, df_list, stdout, exc, data, batch_summary,
                   run_summary, artifacts, ret>>

\* lines 64-68: discover the candidates; none at all is the first ValueError
Discover ==
    /\ pc = "glob"
    /\ csv_files' = Glob(directory)
    /\ IF csv_files' = <<>>
       THEN /\ exc' = ValueError("No CSV files found in the provided directory.")
            /\ pc' = "except"
       ELSE /\ exc' = exc
            /\ pc' = "loop"
    /\ UNCHANGED <<directory, plot, pos, df_list, stdout, data, batch_summary,
                   run_summary, artifacts, ret>>

CurrentFile == directory.files[csv_files[pos + 1]]

\* lines 70-72: the path carries no metadata, continue
SkipFile ==
    /\ pc = "loop"
    /\ pos < Len(csv_files)
    /\ extract_metadata(directory.dir, CurrentFile.base) = None
    /\ pos' = pos + 1
    /\ UNCHANGED <<directory, plot, pc, csv_files, df_list, stdout, exc, data,
                   batch_summary, run_summary, artifacts, ret>>

\* lines 73-77: read the file, attach the metadata, append
LoadFile ==
    /\ pc = "loop"
    /\ pos < Len(csv_files)
    /\ extract_metadata(directory.dir, CurrentFile.base) # None
    /\ CurrentFile.content.ok
    /\ df_list' = Append(df_list,
                         Annotate(CurrentFile.content,
                                  extract_metadata(directory.dir, CurrentFile.base)))
    /\ pos' = pos + 1
    /\ UNCHANGED <<directory, plot, pc, csv_files, stdout, exc, data,
                   batch_summary, run_summary, artifacts, ret>>

\* LoadFailure, were the read outside the try: the exception leaves the loader
LoadFailureAborts ==
    /\ pc = "loop"
    /\ pos < Len(csv_files)
    /\ extract_metadata(directory.dir, CurrentFile.base) # None
    /\ ~CurrentFile.content.ok
    /\ exc' = [type |-> "ParserError", msg |-> csv_files[pos + 1]]
    /\ pc' = "except"
    /\ UNCHANGED <<directory, plot, csv_files, pos, df_list, stdout, data,
                   batch_summary, run_summary, artifacts, ret>>

\* lines 78-79: pd.read_csv raised; print the file and the cause, go on
LoadFailure ==
    /\ pc = "loop"
    /\ pos < Len(csv_files)
    /\ extract_metadata(directory.dir, CurrentFile.base) # None
    /\ ~CurrentFile.content.ok
    /\ stdout' = Append(stdout, [kind |-> "Error reading", file |-> csv_files[pos + 1],
                                 cause |-> "ParserError"])
    /\ pos' = pos + 1
    /\ UNCHANGED <<directory, plot, pc, csv_files, df_list, exc, data,
                   batch_summary, run_summary, artifacts, ret>>

\* lines 81-84 and line 297: nothing usable is the second ValueError, else concat
FinishLoad ==
    /\ pc = "loop"
    /\ pos = Len(csv_files)
    /\ IF df_list = <<>>
       THEN /\ exc' = ValueError("No valid data could be loaded.")
            /\ pc' = "except"
            /\ data' = data
       ELSE /\ data' = Concat(df_list)
            /\ pc' = "aggregate"
            /\ exc' = exc
    /\ UNCHANGED <<directory, plot, csv_files, pos, df_list, stdout,
                   batch_summary, run_summary, artifacts, ret>>

\* HandleException, without the return 1 of line 325
HandleExceptionNoReturn ==
    /\ pc = "except"
    /\ stdout' = Append(stdout, [kind |-> "Error", exc |-> exc])
    /\ ret' = "None"
    /\ pc' = "done"
    /\ exc' = None
    /\ UNCHANGED <<directory, plot, csv_files, pos, df_list, data,
                   batch_summary, run_summary, artifacts>>

\* lines 323-325: except Exception as e: print and return 1
HandleException ==
    /\ pc = "except"
    /\ stdout' = Append(stdout, [kind |-> "Error", exc |-> exc])
    /\ ret' = "1"
    /\ pc' = "done"
    /\ exc' = None
    /\ UNCHANGED <<directory, plot, csv_files, pos, df_list, data,
                   batch_summary, run_summary, artifacts>>

\* line 298: generate_summary_stats(data); groupby raises KeyError for a key
\* that is no column of the table
Aggregate ==
    /\ pc = "aggregate"
    /\ IF \E i \in DOMAIN GroupCols : GroupCols[i] \notin data.columns
       THEN /\ exc' = KeyError(GroupCols[CHOOSE i \in DOMAIN GroupCols :
                                            GroupCols[i] \notin data.columns])
            /\ pc' = "except"
            /\ UNCHANGED <<batch_summary, run_summary>>
       ELSE /\ batch_summary' = generate_summary_stats(data).batch_summary
            /\ run_summary' = generate_summary_stats(data).run_summary
            /\ pc' = "tables"
            /\ exc' = exc
    /\ UNCHANGED <<directory, plot, csv_files, pos, df_list, stdout, data,
                   artifacts, ret>>

\* lines 144-187: the two tables, a row of formatted cells per summary row
\* (:.0f and :.2f; the deviation is formatted from its square)
generate_latex_tables(bs, rs) ==
    [batch_table |->
        [i \in DOMAIN bs |->
            [Run      |-> bs[i].run,
             Batch    |-> bs[i].batch,
             Requests |-> bs[i].total_requests,
             Avg      |-> Round2(bs[i].stats["response-time"].avg),
             P99      |-> Round2(bs[i].stats["response-time"].p99),
             ErrRate  |-> Round2(bs[i].error_rate),
             StdDev   |-> IF bs[i].stats["response-time"].std = NaN THEN NaN
                          ELSE Round2Sqrt(bs[i].stats["response-time"].std.sq)]],
     run_table |->
        [i \in DOMAIN rs |->
            [Run      |-> rs[i].run,
             Avg      |-> rs[i].avg_response_mean,
             P99Max   |-> rs[i].p99_response_max,
             MaxErr   |-> rs[i].error_rate_max,
             Requests |-> rs[i].total_requests_sum]]]

\* lines 301-306: print the two tables
PrintTables ==
    /\ pc = "tables"
    /\ LET t == generate_latex_tables(batch_summary.rows, run_summary.rows)
       IN  stdout' = stdout \o <<[kind |-> "Batch Summary Table", text |-> t.batch_table],
                                 [kind |-> "Run Summary Table", text |-> t.run_table]>>
    /\ pc' = "plot"
    /\ UNCHANGED <<directory, plot, csv_files, pos, df_list, exc, data,
                   batch_summary, run_summary, artifacts, ret>>

\* line 189: the parameters of plot_performance_graphs
PlotParams == <<"batch_summary", "avg_batch_summary", "output_dir">>

\* line 310: the arguments main calls it with
PlotCallArgs == <<"batch_summary", "args.directory">>

\* lines 206, 251, 270, 280: the files the body saves, in order
PlotArtifacts == <<"response_time_progression.png", "throughput_comparison.png",
                   "response_components.png", "error_rate.png">>

\* lines 309-311: if args.plot.  A call that does not bind every parameter
\* raises TypeError before the body runs.  The body itself cannot get past
\* line 259 (np is never imported) and may stop at line 192 or 234, so at
\* most the first two files would be written.
PlotGraphs ==
    /\ pc = "plot"
    /\ plot
    /\ IF Len(PlotCallArgs) # Len(PlotParams)
       THEN /\ exc' = TypeError("missing 1 required positional argument: 'output_dir'")
            /\ artifacts' = artifacts
       ELSE \E k \in 0..2 :
            /\ exc' = [type |-> "Exception", msg |-> "plot_performance_graphs"]
            /\ artifacts' = artifacts \cup {PlotArtifacts[i] : i \in 1..k}
    /\ pc' = "except"
    /\ UNCHANGED <<directory, plot, csv_files, pos, df_list, stdout, data,
                   batch_summary, run_summary, ret>>

\* lines 313-321 (args.plot false): the key findings, over every row of data;
\* main then falls off its end and returns None
PrintFindings ==
    /\ pc = "plot"
    /\ ~plot
    /\ LET rt == Series(data.rows, "response-time")
       IN  stdout' = Append(stdout,
              [kind           |-> "Key Findings",
               runs           |-> Cardinality({data.rows[i]["run"] : i \in DOMAIN data.rows}),
               max_batch      |-> MaxSeq(Series(data.rows, "batch")),
               avg_response   |-> Round2(Mean(rt)),
               p99_response   |-> Round2(Quantile(rt, 99, 100)),
               max_error_rate |-> Round2(RMax([i \in DOMAIN batch_summary.rows |->
                                                batch_summary.rows[i].error_rate])),
               avg_delay      |-> Round2(Mean(Series(data.rows, "Response-delay"))),
               total          |-> Len(data.rows)])
    /\ pc' = "done"
    /\ ret' = "None"
    /\ UNCHANGED <<directory, plot, csv_files, pos, df_list, exc, data,
                   batch_summary, run_summary, artifacts>>

Next ==
    \/ Discover
    \/ SkipFile
    \/ LoadFile
    \/ LoadFailure
    \/ FinishLoad
    \/ Aggregate
    \/ PrintTables
    \/ PlotGraphs
    \/ PrintFindings
    \/ HandleException

Spec == Init /\ [][Next]_vars

\* ------------------------------------------------------- one-file runs
(* The runs of main, without the plot flag, on a directory cnc10_1-2 that   *)
(* holds one file result-<id>-0-0.csv with a test_id column and up to       *)
(* MaxSamples requests drawn from a wider range of timings: one group of    *)
(* up to MaxSamples samples.  No step of such a run raises.                 *)
WideRows == {SampleRow(rt, st) : rt \in {10, 20, 40}, st \in {200, 400}}

OneFile(rows) ==
    [base    |-> [glob |-> TRUE, file |-> [match |-> TRUE, run |-> 0, batch |-> 0]],
     content |-> [ok |-> TRUE, columns |-> CsvColumns \cup {"test_id"},
                  rows |-> WithTestId(rows, 1)]]

InitOneFile ==
    /\ \E k \in 1..MaxSamples : \E rows \in [1..k -> WideRows] :
          directory = [dir |-> DirMatched, files |-> <<OneFile(rows)>>]
    /\ plot = FALSE
    /\ pc = "glob"
    /\ csv_files = <<>>
    /\ pos = 0
    /\ df_list = <<>>
    /\ stdout = <<>>
    /\ exc = None
    /\ data = None
    /\ batch_summary = None
    /\ run_summary = None
    /\ artifacts = {}
    /\ ret = "running"

NextOneFile ==
    \/ Discover
    \/ LoadFile
    \/ FinishLoad
    \/ Aggregate
    \/ PrintTables
    \/ PrintFindings

SpecOneFile == InitOneFile /\ [][NextOneFile]_vars

\* ================================================================ claims
ReportKinds == {"Batch Summary Table", "Run Summary Table", "Key Findings"}

Printed(kind) == \E k \in DOMAIN stdout : stdout[k].kind = kind

\* the loader has returned or raised
LoaderDone == pc \notin {"glob", "loop"}

\* file i of the directory is a candidate that has metadata
Matches(i) ==
    /\ directory.files[i].base.glob
    /\ directory.dir.match
    /\ directory.files[i].base.file.match

\* file i is a candidate that has metadata and loads
Usable(i) == Matches(i) /\ directory.files[i].content.ok

FileIds == DOMAIN directory.files

RECURSIVE RowTotal(_)
RowTotal(ids) ==
    IF ids = {} THEN 0
    ELSE LET i == CHOOSE i \in ids : TRUE
         IN  Len(directory.files[i].content.rows) + RowTotal(ids \ {i})

\* ---------------------------------------------------------------- C1
\* C1: every candidate that matches the naming pattern and fails to load has
\* left a warning naming it and the cause, is not in the result collection,
\* and the loop went on: the loader ends only after the last candidate.
C1_LoadFailureIsSkipped ==
    /\ \A j \in 1..pos :
          (Matches(csv_files[j]) /\ ~directory.files[csv_files[j]].content.ok)
          => \E k \in DOMAIN stdout :
                /\ stdout[k].kind = "Error reading"
                /\ stdout[k].file = csv_files[j]
                /\ stdout[k].cause = "ParserError"
    /\ Len(df_list) = Cardinality({j \in 1..pos : Usable(csv_files[j])})
    /\ LoaderDone => pos = Len(csv_files)

\* a failed load was followed by a successful one, and the loader returned
C1_Witness ==
    /\ pc = "aggregate"
    /\ Len(csv_files) = 2
    /\ Matches(csv_files[1]) /\ ~directory.files[csv_files[1]].content.ok
    /\ Usable(csv_files[2])

\* ---------------------------------------------------------------- C2
\* C2: when at least one file matches and loads, the loader returns a dataset
\* whose row count is the sum of the row counts of the files that matched and
\* loaded; every other file contributes nothing.
C2_RowCountIsSumOfLoaded ==
    /\ data # None =>
          Len(data.rows) = RowTotal({i \in FileIds : Usable(i)})
    /\ (LoaderDone /\ \E i \in FileIds : Usable(i)) => data # None

\* two rows came from one file, the other file did not load
C2_Witness ==
    /\ data # None
    /\ Len(data.rows) = 2
    /\ \E i \in FileIds : Matches(i) /\ ~directory.files[i].content.ok

\* ---------------------------------------------------------------- C3
NoFilesFound == ValueError("No CSV files found in the provided directory.")
NoValidData  == ValueError("No valid data could be loaded.")

\* C3: the loader raises one of two different errors: the discovery error,
\* exactly when no file matches result-*.csv, before any file is processed;
\* the no-usable-input error, only when there are candidates, all of them
\* processed, and the collection is empty.  With a usable candidate it
\* returns a dataset.
C3_TwoLoaderFailures ==
    /\ NoFilesFound # NoValidData
    /\ (pc = "except" /\ data = None) => exc \in {NoFilesFound, NoValidData}
    /\ exc = NoFilesFound =>
          /\ \A i \in FileIds : ~directory.files[i].base.glob
          /\ pos = 0 /\ df_list = <<>> /\ stdout = <<>>
    /\ (LoaderDone /\ \A i \in FileIds : ~directory.files[i].base.glob)
          => data = None /\ (pc = "except" => exc = NoFilesFound)
    /\ exc = NoValidData =>
          /\ csv_files # <<>>
          /\ pos = Len(csv_files)
          /\ df_list = <<>>
          /\ \A i \in FileIds : ~Usable(i)
    /\ (LoaderDone /\ \E i \in FileIds : Usable(i)) => data # None /\ exc # NoValidData

\* two candidates, one without metadata and one that failed to load
C3_Witness ==
    /\ exc = NoValidData
    /\ Len(csv_files) = 2
    /\ \E i \in FileIds : Matches(i)
    /\ \E i \in FileIds : ~Matches(i)

\* ---------------------------------------------------------------- C4
\* the fields of RunMetadata
RunMetadataFields ==
    {"test_id", "concurrency", "test_num", "test_name", "variant",
     "implementation", "run", "batch"}

\* C4: every row of the dataset the loader returns carries every RunMetadata
\* field, so the grouping by (test_id, run, batch) is defined for it.
C4_EveryRowHasAllMetadata ==
    data # None =>
        /\ \A i \in DOMAIN data.rows : RunMetadataFields \subseteq DOMAIN data.rows[i]
        /\ exc # KeyError("test_id")

\* ---------------------------------------------------------------- C5
\* C5: report text is on stdout only when loading and aggregation succeeded;
\* when either failed, main ends with no report text, an Error line as the
\* last thing printed, the return value 1 and no exception left in flight.
C5_NoReportUnlessAggregated ==
    /\ (\E kind \in ReportKinds : Printed(kind))
          => data # None /\ batch_summary # None /\ run_summary # None
    /\ (pc = "done" /\ (data = None \/ batch_summary = None)) =>
          /\ ret = "1"
          /\ exc = None
          /\ stdout # <<>> /\ stdout[Len(stdout)].kind = "Error"
          /\ \A kind \in ReportKinds : ~Printed(kind)

\* main ended after the aggregation failed
C5_Witness ==
    /\ pc = "done"
    /\ data # None
    /\ batch_summary = None
    /\ ret = "1"

\* ---------------------------------------------------------------- C6
\* C6: a run with the plot flag whose input loads and aggregates ends as a
\* success with the four plot files written and the two tables and the
\* findings printed.
C6_PlotRunSucceeds ==
    (pc = "done" /\ plot /\ batch_summary # None) =>
        /\ artifacts = {PlotArtifacts[i] : i \in DOMAIN PlotArtifacts}
        /\ ret = "None"
        /\ \A kind \in ReportKinds : Printed(kind)

\* ---------------------------------------------------------------- C7
\* the rows of data in the group of batch-summary row b
RowsOf(b) ==
    {i \in DOMAIN data.rows :
        /\ "test_id" \in DOMAIN data.rows[i]
        /\ data.rows[i]["test_id"] = b.test_id
        /\ data.rows[i]["run"] = b.run
        /\ data.rows[i]["batch"] = b.batch}

ErrorsOf(b) == {i \in RowsOf(b) : data.rows[i]["status-code"] >= 400}

\* C7: in every batch-summary row, error_rate is 100 * (rows of the group
\* with status-code >= 400) / total_requests, lies in [0, 100], is 100
\* exactly when every row is such a row and 0 exactly when none is.
C7_ErrorRate ==
    batch_summary # None =>
        \A k \in DOMAIN batch_summary.rows :
            LET b  == batch_summary.rows[k]
                er == b.error_rate
                e  == Cardinality(ErrorsOf(b))
            IN  /\ b.total_requests = Cardinality(RowsOf(b))
                /\ b.total_requests > 0
                /\ er.n * b.total_requests = 100 * e * er.d
                /\ RLeq(RInt(0), er) /\ RLeq(er, RInt(100))
                /\ (er = RInt(100)) <=> (e = b.total_requests)
                /\ (er = RInt(0)) <=> (e = 0)

\* one group of several failed requests, one group with none, and one mixed
C7_Witness ==
    /\ batch_summary # None
    /\ \E k \in DOMAIN batch_summary.rows :
          batch_summary.rows[k].error_rate = RInt(100) /\ batch_summary.rows[k].total_requests >= 2
    /\ \E k \in DOMAIN batch_summary.rows :
          batch_summary.rows[k].error_rate = RInt(50)

\* ---------------------------------------------------------------- C8
RunsOfData == {data.rows[i]["run"] : i \in DOMAIN data.rows}

RowsOfRun(r) == {i \in DOMAIN data.rows : data.rows[i]["run"] = r}

BatchTotalOfRun(r) ==
    SumSeq([k \in DOMAIN batch_summary.rows |->
              IF batch_summary.rows[k].run = r THEN batch_summary.rows[k].total_requests ELSE 0])

\* C8: for every run value of the dataset the run summary has a row whose
\* total_requests sum is the sum over the batch-summary rows of the run and
\* the number of rows of the dataset with that run value.
C8_RunTotals ==
    run_summary # None =>
        \A r \in RunsOfData :
            \E k \in DOMAIN run_summary.rows :
                /\ run_summary.rows[k].run = r
                /\ run_summary.rows[k].total_requests_sum = BatchTotalOfRun(r)
                /\ run_summary.rows[k].total_requests_sum = Cardinality(RowsOfRun(r))

\* ---------------------------------------------------------------- C9
RECURSIVE Perms(_)
Perms(ids) ==
    IF ids = {} THEN {<<>>}
    ELSE UNION {{<<i>> \o p : p \in Perms(ids \ {i})} : i \in ids}

====
